---- MODULE Spec2Model ----
(***************************************************************************)
(* Dialog stacking and async-prompt subsystem of @opentui-ui/dialog:       *)
(* DialogManager (packages/dialog/src/index.ts) and                        *)
(* DialogContainerRenderable (unnamed/part_002).                           *)
(*                                                                         *)
(* A handler runs to completion (single-threaded event loop), so every     *)
(* public method is one action.  Its body is computed by operators over a  *)
(* state record s, so that callbacks invoked by a handler (subscribers,    *)
(* onOpen, onClose and the calls these make back into the manager) are    *)
(* part of the same step.                                                  *)
(*                                                                         *)
(* Encodings.  A DialogId (string | number) is an integer: numbers are     *)
(* themselves, the caller's string id is StrId, which no counter value     *)
(* equals (=== never equates a string with a number).  undefined / null   *)
(* is 0 for ids, callbacks and renderables.  Promise values are strings.   *)
(***************************************************************************)
EXTENDS Integers, Sequences, FiniteSets, TLC

\* ---------------------------------------------------------------- bounds
MaxId == 3          \* auto-generated ids are drawn while idCounter <= MaxId
MaxStack == 3       \* show of a new id is offered while the stack is shorter
MaxPrompts == 1     \* the prompts of SpecAsync are opened while idCounter <= MaxPrompts
MaxToasts == 3      \* a toast is added while toasts and queue hold fewer entries
MaxTimers == 2      \* dismiss is offered while fewer timers are pending

StrId == 100                      \* a caller-supplied string id
NumId == 2                        \* a caller-supplied numeric id
CallerIds == {NumId, StrId}
AutoIds == 1..(MaxId + 1)

NoId == 0                         \* undefined
NoEl == 0                         \* null renderable
ElX == -1                         \* the renderable focused before any dialog

VARIABLES
  dialogs,              \* DialogManager.dialogs: Seq of records, oldest first
  dialogsRef,           \* how many times the last handler assigned a new array to
                        \* this.dialogs (0: it holds the array it held before)
  idCounter,            \* DialogManager.idCounter
  savedFocus,           \* DialogManager.savedFocus
  focusRestoreTimeout,  \* DialogManager.focusRestoreTimeout is set
  liveTimers,           \* the timers restoreFocus set that neither fired nor were
                        \* cleared
  destroyed,            \* DialogManager.destroyed
  subscribed,           \* the Container's callback is in DialogManager.subscribers
  subscribers,          \* DialogManager.subscribers (a Set, insertion order)
  promises,             \* per pre-allocated id: the promise of showAsyncDialog
  renderables,          \* Container._dialogRenderables (a Map, insertion order)
  visible,              \* Container.visible (and the shared backdrop's)
  containerOptions,     \* Container._options: closeOnEscape, closeOnClickOutside
  currentFocused,       \* ctx.currentFocusedRenderable
  hasFocus,             \* that renderable's focused flag
  xDestroyed,           \* ElX.isDestroyed
  contextDialogs,       \* DialogManager.contextDialogs: the registered names
  toasts,               \* Observer.toasts: every toast shown, oldest first
  dismissedToasts,      \* Observer.dismissedToasts
  queue,                \* Observer.queue
  limit,                \* Observer.limit
  activeToasts,         \* Observer._activeToasts
  toastsCounter,        \* toastsCounter of the toast module
  timers,               \* the setTimeout(..., 0) callbacks of the store, in order
  trace,                \* what the last handler did, in order
  ret,                  \* what the last handler returned (0: undefined / void)
  op                    \* the last handler

vars == <<dialogs, dialogsRef, idCounter, savedFocus, focusRestoreTimeout,
          liveTimers, destroyed,
          subscribed, subscribers, promises, renderables, visible,
          containerOptions,
          currentFocused, hasFocus, xDestroyed, contextDialogs,
          toasts, dismissedToasts, queue, limit, activeToasts, toastsCounter,
          timers,
          trace, ret, op>>

\* The toast store and the dialog manager are separate objects: a handler of
\* one leaves the other's fields alone.
toastVars ==
  <<toasts, dismissedToasts, queue, limit, activeToasts, toastsCounter, timers>>

dialogVars ==
  <<dialogs, dialogsRef, idCounter, savedFocus, focusRestoreTimeout,
    liveTimers, destroyed,
    subscribed, subscribers, promises, renderables, visible, containerOptions,
    currentFocused, hasFocus, xDestroyed, contextDialogs>>

\* The state as one record, for the operators that compute a handler.
St ==
  [dialogs |-> dialogs, dialogsRef |-> 0, idCounter |-> idCounter, savedFocus |-> savedFocus,
   focusRestoreTimeout |-> focusRestoreTimeout, liveTimers |-> liveTimers,
   destroyed |-> destroyed,
   subscribed |-> subscribed, subscribers |-> subscribers,
   promises |-> promises,
   renderables |-> renderables, visible |-> visible,
   containerOptions |-> containerOptions,
   currentFocused |-> currentFocused, hasFocus |-> hasFocus,
   xDestroyed |-> xDestroyed, contextDialogs |-> contextDialogs,
   trace |-> <<>>, ret |-> 0]

Commit(s, name) ==
  /\ dialogs' = s.dialogs
  /\ dialogsRef' = s.dialogsRef
  /\ idCounter' = s.idCounter
  /\ savedFocus' = s.savedFocus
  /\ focusRestoreTimeout' = s.focusRestoreTimeout
  /\ liveTimers' = s.liveTimers
  /\ destroyed' = s.destroyed
  /\ subscribed' = s.subscribed
  /\ subscribers' = s.subscribers
  /\ promises' = s.promises
  /\ renderables' = s.renderables
  /\ visible' = s.visible
  /\ containerOptions' = s.containerOptions
  /\ currentFocused' = s.currentFocused
  /\ hasFocus' = s.hasFocus
  /\ xDestroyed' = s.xDestroyed
  /\ contextDialogs' = s.contextDialogs
  /\ UNCHANGED toastVars
  /\ trace' = s.trace
  /\ ret' = s.ret
  /\ op' = name

\* ------------------------------------------------------------- helpers
Log(s, kind, a, b) == [s EXCEPT !.trace = Append(@, <<kind, a, b>>)]

Ids(seq) == {seq[i].id : i \in 1..Len(seq)}

\* Array.prototype.findIndex((d) => d.id === id), 1-based; 0 for -1.
FindIndex(seq, id) ==
  IF \E i \in 1..Len(seq) : seq[i].id = id
    THEN CHOOSE i \in 1..Len(seq) :
           /\ seq[i].id = id
           /\ \A j \in 1..(i - 1) : seq[j].id # id
    ELSE 0

\* [...seq.slice(0, i), ...seq.slice(i + 1)] for the 1-based index i.
RemoveAt(seq, i) == SubSeq(seq, 1, i - 1) \o SubSeq(seq, i + 1, Len(seq))

\* [...seq.slice(0, i), x, ...seq.slice(i + 1)].
ReplaceAt(seq, i, x) ==
  SubSeq(seq, 1, i - 1) \o <<x>> \o SubSeq(seq, i + 1, Len(seq))

RECURSIVE Reverse(_)
Reverse(seq) ==
  IF seq = <<>> THEN <<>> ELSE Reverse(Tail(seq)) \o <<Head(seq)>>

\* this.dialogs = [...]: the field is assigned an array that did not exist
\* before, so it holds another reference than any a caller has.
SetDialogs(s, seq) == [s EXCEPT !.dialogs = seq, !.dialogsRef = @ + 1]

\* ---------------------------------------------------------- the records
Undef == "undefined"              \* an option left out / the value undefined

\* A Dialog (types.ts).  onClose is [w, f]: w # 0 when it is the wrapper that
\* showAsyncDialog installs for the promise of id w, f is the caller's
\* callback (0: none), for a wrapper the showOptions.onClose it calls first.
NoCallback == [w |-> 0, f |-> 0]

\* A DialogStyle with two of its keys; a key left out is Undef, and the
\* style property left out is the style without keys.
NoStyle == [width |-> Undef, border |-> Undef]

\* { ...options, id }
NewDialog(o, id) ==
  [id |-> id, content |-> o.content, onClose |-> o.onClose,
   style |-> o.style,
   closeOnEscape |-> o.closeOnEscape,
   closeOnClickOutside |-> o.closeOnClickOutside]

\* The spread { ...a, ...b }: a key that b carries replaces a's.
Spread(a, b, absent) == IF b = absent THEN a ELSE b

\* { ...existing, ...options, id }
MergeDialog(existing, o, id) ==
  [id |-> id,
   content |-> o.content,
   onClose |-> Spread(existing.onClose, o.onClose, NoCallback),
   style |-> Spread(existing.style, o.style, NoStyle),
   closeOnEscape |-> Spread(existing.closeOnEscape, o.closeOnEscape, Undef),
   closeOnClickOutside |->
     Spread(existing.closeOnClickOutside, o.closeOnClickOutside, Undef)]

\* a ?? b
Coalesce(a, b) == IF a = Undef \/ a = "null" THEN b ELSE a

\* What a content factory does when the Container calls it.
BadContent == "throws"
ContentThrows(content) == content = BadContent

\* ------------------------------------------------------- the Container
\* The DialogRenderable of a record keeps the record it was built from; the
\* Container reads its id, closeOnEscape and closeOnClickOutside.
NewRenderable(d) ==
  [id |-> d.id, closeOnEscape |-> d.closeOnEscape,
   closeOnClickOutside |-> d.closeOnClickOutside]

UpdateBackdropVisibility(s) ==
  [s EXCEPT !.visible = Len(s.renderables) > 0]

\* Map.delete(id) and destroyRecursively(): a focused renderable inside the
\* dialog is destroyed with it.
RemoveDialog(s, id) ==
  LET i == FindIndex(s.renderables, id)
  IN IF i = 0
       THEN s
       ELSE UpdateBackdropVisibility(
              [s EXCEPT !.renderables = RemoveAt(@, i),
                        !.hasFocus = IF s.currentFocused = id THEN FALSE ELSE @])

\* Map.set(id, r) after the old entry was deleted (or never was): the key is
\* inserted last.  new DialogRenderable runs the content factory; what it
\* throws leaves the subscriber and is caught (and logged) by publish.
AddOrUpdateDialog(s, d) ==
  LET s1 == IF FindIndex(s.renderables, d.id) # 0 THEN RemoveDialog(s, d.id) ELSE s
  IN IF ContentThrows(d.content)
       THEN Log(s1, "subscriberError", d.id, 0)
       ELSE UpdateBackdropVisibility(
              [s1 EXCEPT !.renderables = Append(@, NewRenderable(d))])

\* Map.set(id, r) on a key the Map holds: the entry keeps its place.
HandleDialogUpdate(s, id) ==
  LET i == FindIndex(s.dialogs, id)
      j == FindIndex(s.renderables, id)
  IN IF i = 0 \/ j = 0
       THEN s
       ELSE IF ContentThrows(s.dialogs[i].content)
         THEN Log([s EXCEPT !.hasFocus = IF s.currentFocused = id THEN FALSE ELSE @],
                  "subscriberError", id, 0)
         ELSE [s EXCEPT !.renderables = ReplaceAt(@, j, NewRenderable(s.dialogs[i])),
                        !.hasFocus = IF s.currentFocused = id THEN FALSE ELSE @]

\* The callback the Container subscribes: it tells the events apart by their
\* shape (isDialogToClose, isDialogUpdated, else a Dialog).
ContainerSubscriber(s, kind, d) ==
  IF kind = "close" THEN RemoveDialog(s, d.id)
  ELSE IF kind = "updated" THEN HandleDialogUpdate(s, d.id)
  ELSE AddOrUpdateDialog(s, d)

GetTopDialogRenderable(s) ==
  IF Len(s.renderables) = 0 THEN NoId ELSE s.renderables[Len(s.renderables)].id

\* ----------------------------------------------------------- the Manager
\* publish(data): kind is the shape of data: "dialog" for a Dialog,
\* "close" for {id, close: true}, "updated" for {id, updated: true}.
\* The callbacks of subscribers: the Container's, one that throws whatever
\* it is handed, one that only listens, one that calls getDialogs() and notes
\* whether the record of the event is in the list.
SubContainer == "container"
SubThrows == "throws"
SubListens == "listens"
SubReads == "reads"

RECURSIVE DeliverTo(_, _, _, _)

\* A loop without try/catch: the first subscriber that throws ends it.
DeliverToStopsAtThrow(s, subs, kind, d) ==
  IF subs = <<>> THEN s
  ELSE LET sub == Head(subs)
           at == Len(s.subscribers) - Len(subs) + 1
       IN IF sub = SubThrows
            THEN Log(Log(s, "notify", d.id, at), "subscriberError", d.id, at)
            ELSE DeliverTo(
                   IF sub = SubContainer
                     THEN IF s.subscribed THEN ContainerSubscriber(s, kind, d) ELSE s
                     ELSE Log(s, "notify", d.id, at),
                   Tail(subs), kind, d)

\* for (const subscriber of this.subscribers) try { subscriber(data) }
\* catch (error) { console.error(...) }: subs are the subscribers still to
\* call; a call is logged with the subscriber's place in the Set.
DeliverTo(s, subs, kind, d) ==
  IF subs = <<>> THEN s
  ELSE LET sub == Head(subs)
           at == Len(s.subscribers) - Len(subs) + 1
           s1 == IF sub = SubContainer
                   THEN IF s.subscribed THEN ContainerSubscriber(s, kind, d) ELSE s
                 ELSE IF sub = SubThrows
                   THEN Log(Log(s, "notify", d.id, at), "subscriberError", d.id, at)
                 ELSE IF sub = SubReads
                   THEN Log(Log(s, "notify", d.id, at), "sees", d.id,
                            IF FindIndex(s.dialogs, d.id) # 0 THEN 1 ELSE 0)
                 ELSE Log(s, "notify", d.id, at)
       IN DeliverTo(s1, Tail(subs), kind, d)

Publish(s, kind, d) ==
  DeliverTo(Log(s, kind, d.id, 0), s.subscribers, kind, d)

\* if (this.focusRestoreTimeout) { clearTimeout(...); ... = undefined }
CancelPendingFocusRestore(s) ==
  IF s.focusRestoreTimeout
    THEN Log([s EXCEPT !.focusRestoreTimeout = FALSE, !.liveTimers = @ - 1],
             "clearTimeout", 0, 0)
    ELSE s

IsDestroyed(s, e) ==
  IF e = ElX THEN s.xDestroyed ELSE e \notin Ids(s.renderables)

\* Renderable.blur(): the renderable loses focus; the render context goes on
\* naming it as its current focused renderable.
Blur(s, e) ==
  Log([s EXCEPT !.hasFocus = IF s.currentFocused = e THEN FALSE ELSE @],
      "blur", e, 0)

\* Renderable.focus()
Focus(s, e) ==
  Log([s EXCEPT !.currentFocused = e, !.hasFocus = TRUE], "focus", e, 0)

\* saveFocus that leaves a pending restoration alone.
SaveFocusKeepsTimer(s) ==
  LET s2 == [s EXCEPT !.savedFocus = s.currentFocused]
  IN IF s2.savedFocus # NoEl THEN Blur(s2, s2.savedFocus) ELSE s2

SaveFocus(s) ==
  LET s1 == CancelPendingFocusRestore(s)
      s2 == [s1 EXCEPT !.savedFocus = s1.currentFocused]
  IN IF s2.savedFocus # NoEl THEN Blur(s2, s2.savedFocus) ELSE s2

\* restoreFocus that focuses at once instead of from a timer.
RestoreFocusSync(s) ==
  LET s1 == CancelPendingFocusRestore(s)
  IN IF s1.savedFocus # NoEl /\ ~IsDestroyed(s1, s1.savedFocus)
       THEN [Focus(s1, s1.savedFocus) EXCEPT !.savedFocus = NoEl]
       ELSE [s1 EXCEPT !.savedFocus = NoEl]

RestoreFocus(s) ==
  LET s1 == CancelPendingFocusRestore(s)
  IN IF s1.savedFocus # NoEl /\ ~IsDestroyed(s1, s1.savedFocus)
       THEN Log([s1 EXCEPT !.focusRestoreTimeout = TRUE, !.liveTimers = @ + 1],
                "setTimeout", 0, 0)
       ELSE [s1 EXCEPT !.savedFocus = NoEl]

\* The timer's callback without its checks of destroyed and isDestroyed.
FocusRestoreCallbackUnguarded(s) ==
  LET s1 == IF s.savedFocus # NoEl THEN Focus(s, s.savedFocus) ELSE s
  IN [s1 EXCEPT !.savedFocus = NoEl, !.focusRestoreTimeout = FALSE,
                !.liveTimers = @ - 1]

\* The callback restoreFocus hands to setTimeout.
FocusRestoreCallback(s) ==
  LET s1 == IF ~s.destroyed /\ s.savedFocus # NoEl /\ ~IsDestroyed(s, s.savedFocus)
              THEN Focus(s, s.savedFocus)
              ELSE s
  IN [s1 EXCEPT !.savedFocus = NoEl, !.focusRestoreTimeout = FALSE,
                !.liveTimers = @ - 1]

\* addDialog that pushes the record onto the array it has
\* (this.dialogs.push(data)).
AddDialogPush(s, d) ==
  Publish([s EXCEPT !.dialogs = Append(@, d)], "dialog", d)

\* addDialog that puts the record in front of the others.
AddDialogPrepend(s, d) ==
  Publish(SetDialogs(s, <<d>> \o s.dialogs), "dialog", d)

AddDialog(s, d) ==
  Publish(SetDialogs(s, Append(s.dialogs, d)), "dialog", d)

\* The error a handler throws: it returns nothing and the caller sees e.
Throw(s, e) == [Log(s, "throw", e, 0) EXCEPT !.ret = 0]

ErrDestroyed == 1
ErrMissingContent == 2
ErrInvalidContent == 3
ErrNotRegistered == 4

OkContents == {"ok", BadContent}

\* What the caller's onClose callbacks do: nothing more than being called,
\* manager.closeAll(), manager.close(), manager.show({content}).
CbPlain == 1
CbCloseAll == 2
CbCloseTop == 3
CbShow == 4

\* The promise that showAsyncDialog returns for a pre-allocated id, with the
\* `resolved` flag of its safeResolve closure.  calls counts the calls of the
\* promise's resolve function; the first one settles it.
NoPromise ==
  [kind |-> "none", fallback |-> Undef, resolved |-> FALSE,
   settled |-> FALSE, value |-> Undef, calls |-> 0]

NewPromise(kind, fallback) ==
  [kind |-> kind, fallback |-> fallback, resolved |-> FALSE,
   settled |-> FALSE, value |-> Undef, calls |-> 0]

\* defaultDismissValue of prompt, confirm, alert, choice.
DefaultDismissValue(kind) == IF kind = "confirm" THEN "false" ELSE Undef

\* resolve(value) of the Promise executor: only the first call settles.
PromiseResolve(pr, v) ==
  [pr EXCEPT !.calls = @ + 1,
             !.settled = TRUE,
             !.value = IF pr.settled THEN @ ELSE v]

RECURSIVE CloseOp(_, _), RunOnClose(_, _), RunCallback(_, _),
          CloseAllOp(_), CloseEach(_, _), SafeResolve(_, _, _), ShowOp(_, _)

\* safeResolve that closes the topmost dialog instead of its own.
SafeResolveClosesTop(s, p, v) ==
  IF s.promises[p].resolved
    THEN s
    ELSE CloseOp(
           Log([s EXCEPT !.promises[p] =
                  PromiseResolve([@ EXCEPT !.resolved = TRUE], v)],
               "resolve", p, 0),
           NoId)

\* safeResolve without its resolved flag.
SafeResolveUnguarded(s, p, v) ==
  CloseOp(
    Log([s EXCEPT !.promises[p] =
           PromiseResolve([@ EXCEPT !.resolved = TRUE], v)],
        "resolve", p, 0),
    p)

\* safeResolve(value) of the prompt with id p.
SafeResolve(s, p, v) ==
  IF s.promises[p].resolved
    THEN s
    ELSE CloseOp(
           Log([s EXCEPT !.promises[p] =
                  PromiseResolve([@ EXCEPT !.resolved = TRUE], v)],
               "resolve", p, 0),
           p)

\* The body of the caller's callback f.
RunCallback(s, f) ==
  IF f = CbCloseAll THEN CloseAllOp(s)
  ELSE IF f = CbCloseTop THEN CloseOp(s, NoId)
  ELSE IF f = CbShow
    THEN ShowOp(s, [id |-> NoId, content |-> "ok", onClose |-> NoCallback,
                    style |-> NoStyle, closeOnEscape |-> Undef,
                    closeOnClickOutside |-> Undef])
  ELSE s

\* dialog?.onClose?.(): the caller's callback, or the wrapper of
\* showAsyncDialog: showOptions.onClose?.() and then
\* safeResolve(fallback ?? defaultDismissValue).
RunOnClose(s, dialog) ==
  LET oc == dialog.onClose
      s1 == IF oc.f # 0
              THEN RunCallback(Log(s, "onClose", dialog.id, oc.f), oc.f)
              ELSE s
  IN IF oc.w = 0
       THEN s1
       ELSE SafeResolve(s1, oc.w,
              Coalesce(s1.promises[oc.w].fallback,
                       DefaultDismissValue(s1.promises[oc.w].kind)))

\* close that calls the record's onClose before it publishes the event.
CloseOpCallbackFirst(s, id) ==
  LET targetId ==
        IF id # NoId THEN id
        ELSE IF Len(s.dialogs) > 0 THEN s.dialogs[Len(s.dialogs)].id
        ELSE NoId
      dialogIndex == FindIndex(s.dialogs, targetId)
  IN IF targetId = NoId \/ dialogIndex = 0
       THEN [s EXCEPT !.ret = 0]
       ELSE LET dialog == s.dialogs[dialogIndex]
                s1 == SetDialogs(s, RemoveAt(s.dialogs, dialogIndex))
                s2 == RunOnClose(s1, dialog)
                s3 == Publish(s2, "close", dialog)
                s4 == IF Len(s3.dialogs) = 0 THEN RestoreFocus(s3) ELSE s3
            IN [s4 EXCEPT !.ret = targetId]

\* close that goes on to restoreFocus when it found no record to close.
CloseOpAlwaysRestores(s, id) ==
  LET targetId ==
        IF id # NoId THEN id
        ELSE IF Len(s.dialogs) > 0 THEN s.dialogs[Len(s.dialogs)].id
        ELSE NoId
      dialogIndex == FindIndex(s.dialogs, targetId)
  IN IF targetId = NoId \/ dialogIndex = 0
       THEN [(IF Len(s.dialogs) = 0 THEN RestoreFocus(s) ELSE s) EXCEPT !.ret = 0]
       ELSE LET dialog == s.dialogs[dialogIndex]
                s1 == SetDialogs(s, RemoveAt(s.dialogs, dialogIndex))
                s2 == Publish(s1, "close", dialog)
                s3 == RunOnClose(s2, dialog)
                s4 == IF Len(s3.dialogs) = 0 THEN RestoreFocus(s3) ELSE s3
            IN [s4 EXCEPT !.ret = targetId]

\* close that calls onClose only for the record that was on top.
CloseOpTopOnly(s, id) ==
  LET targetId ==
        IF id # NoId THEN id
        ELSE IF Len(s.dialogs) > 0 THEN s.dialogs[Len(s.dialogs)].id
        ELSE NoId
      dialogIndex == FindIndex(s.dialogs, targetId)
  IN IF targetId = NoId \/ dialogIndex = 0
       THEN [s EXCEPT !.ret = 0]
       ELSE LET dialog == s.dialogs[dialogIndex]
                s1 == SetDialogs(s, RemoveAt(s.dialogs, dialogIndex))
                s2 == Publish(s1, "close", dialog)
                s3 == IF dialogIndex = Len(s.dialogs)
                        THEN RunOnClose(s2, dialog) ELSE s2
                s4 == IF Len(s3.dialogs) = 0 THEN RestoreFocus(s3) ELSE s3
            IN [s4 EXCEPT !.ret = targetId]

\* close(id?); id = NoId is the call without an id.
CloseOp(s, id) ==
  LET targetId ==
        IF id # NoId THEN id
        ELSE IF Len(s.dialogs) > 0 THEN s.dialogs[Len(s.dialogs)].id
        ELSE NoId
      dialogIndex == FindIndex(s.dialogs, targetId)
  IN IF targetId = NoId \/ dialogIndex = 0
       THEN [s EXCEPT !.ret = 0]
       ELSE LET dialog == s.dialogs[dialogIndex]
                s1 == SetDialogs(s, RemoveAt(s.dialogs, dialogIndex))
                s2 == Publish(s1, "close", dialog)
                s3 == RunOnClose(s2, dialog)
                s4 == IF Len(s3.dialogs) = 0 THEN RestoreFocus(s3) ELSE s3
            IN [s4 EXCEPT !.ret = targetId]

\* for (const d of dialogsToClose) this.close(d.id)
CloseEach(s, ids) ==
  IF ids = <<>> THEN s ELSE CloseEach(CloseOp(s, Head(ids)), Tail(ids))

\* closeAll that closes the snapshot oldest first.
CloseAllOpOldestFirst(s) ==
  [CloseEach(s, [i \in 1..Len(s.dialogs) |-> s.dialogs[i].id])
     EXCEPT !.ret = 0]

CloseAllOp(s) ==
  LET dialogsToClose == Reverse(s.dialogs)
  IN [CloseEach(s, [i \in 1..Len(dialogsToClose) |-> dialogsToClose[i].id])
        EXCEPT !.ret = 0]

\* A show that never finds the id in the stack.
ExistingIndexNone(s, id) == 0

\* this.dialogs.findIndex((d) => d.id === id) of show.
ExistingIndex(s, id) == FindIndex(s.dialogs, id)

\* An update that moves the merged record to the top of the stack.
UpdateInPlaceMoveToTop(s, existingIndex, o, id) ==
  LET updated == MergeDialog(s.dialogs[existingIndex], o, id)
  IN Publish(SetDialogs(s, Append(RemoveAt(s.dialogs, existingIndex), updated)),
             "dialog", updated)

\* An update that calls the merged record's onOpen as a first show does.
UpdateInPlaceReopens(s, existingIndex, o, id) ==
  LET updated == MergeDialog(s.dialogs[existingIndex], o, id)
  IN Log(Publish(SetDialogs(s, ReplaceAt(s.dialogs, existingIndex, updated)),
                 "dialog", updated),
         "onOpen", id, 0)

\* The branch of show for an id the stack holds: the merged record takes the
\* place of the old one and is published.
UpdateInPlace(s, existingIndex, o, id) ==
  LET updated == MergeDialog(s.dialogs[existingIndex], o, id)
  IN Publish(SetDialogs(s, ReplaceAt(s.dialogs, existingIndex, updated)),
             "dialog", updated)

\* The branch of show for a new id with onOpen called before the record is
\* pushed and published.
PushNewOpensFirst(s, o, id) ==
  LET s1 == IF Len(s.dialogs) = 0 THEN SaveFocus(s) ELSE s
      dialog == NewDialog(o, id)
  IN AddDialog(Log(s1, "onOpen", id, 0), dialog)

\* The branch of show for a new id that saves the focus for every dialog.
PushNewAlwaysSaves(s, o, id) ==
  Log(AddDialog(SaveFocus(s), NewDialog(o, id)), "onOpen", id, 0)

\* The branch of show for a new id.
PushNew(s, o, id) ==
  LET s1 == IF Len(s.dialogs) = 0 THEN SaveFocus(s) ELSE s
      dialog == NewDialog(o, id)
  IN Log(AddDialog(s1, dialog), "onOpen", id, 0)

\* show that takes the id from the counter before it validates.
ShowOpValidatesLate(s, o) ==
  LET id == IF o.id # NoId THEN o.id ELSE s.idCounter
      s1 == IF o.id # NoId THEN s ELSE [s EXCEPT !.idCounter = @ + 1]
      existingIndex == ExistingIndex(s1, id)
  IN IF s.destroyed THEN Throw(s1, ErrDestroyed)
     ELSE IF o.content = Undef THEN Throw(s1, ErrMissingContent)
     ELSE IF o.content \notin OkContents THEN Throw(s1, ErrInvalidContent)
     ELSE IF existingIndex # 0
       THEN [UpdateInPlace(s1, existingIndex, o, id) EXCEPT !.ret = id]
       ELSE [PushNew(s1, o, id) EXCEPT !.ret = id]

\* show(options); o.id = NoId is options without an id.
ShowOp(s, o) ==
  IF s.destroyed THEN Throw(s, ErrDestroyed)
  ELSE IF o.content = Undef THEN Throw(s, ErrMissingContent)
  ELSE IF o.content \notin OkContents THEN Throw(s, ErrInvalidContent)
  ELSE
    LET id == IF o.id # NoId THEN o.id ELSE s.idCounter
        s1 == IF o.id # NoId THEN s ELSE [s EXCEPT !.idCounter = @ + 1]
        existingIndex == ExistingIndex(s1, id)
    IN IF existingIndex # 0
         THEN [UpdateInPlace(s1, existingIndex, o, id) EXCEPT !.ret = id]
         ELSE [PushNew(s1, o, id) EXCEPT !.ret = id]

\* replace that shows the new dialog and then closes all.
ReplaceOpShowsFirst(s, o) ==
  LET s1 == ShowOp(s, o)
  IN [CloseAllOp(s1) EXCEPT !.ret = s1.ret]

ReplaceOp(s, o) == ShowOp(CloseAllOp(s), o)

\* getDialogs(), getTopDialog() (NoId: undefined), isOpen()
GetDialogs(s) == s.dialogs
GetTopDialog(s) ==
  IF Len(s.dialogs) = 0 THEN NoId ELSE s.dialogs[Len(s.dialogs)].id
IsOpen(s) == Len(s.dialogs) > 0

\* updates.style ?? dialog.style: the new style object replaces the old.
MergeStyleReplaces(a, b) == IF b = NoStyle THEN a ELSE b

\* updates.style ? { ...dialog.style, ...updates.style } : dialog.style
MergeStyle(a, b) ==
  [width |-> Spread(a.width, b.width, Undef),
   border |-> Spread(a.border, b.border, Undef)]

\* updateDialog(id, updates); updates carry no content and no id.
UpdateDialogOp(s, id, u) ==
  LET dialogIndex == FindIndex(s.dialogs, id)
  IN IF dialogIndex = 0
       THEN [s EXCEPT !.ret = 0]
       ELSE LET dialog == s.dialogs[dialogIndex]
                updatedDialog ==
                  [dialog EXCEPT
                     !.onClose = Spread(@, u.onClose, NoCallback),
                     !.style = MergeStyle(@, u.style),
                     !.closeOnEscape = Spread(@, u.closeOnEscape, Undef),
                     !.closeOnClickOutside = Spread(@, u.closeOnClickOutside, Undef)]
            IN [Publish(SetDialogs(s, ReplaceAt(s.dialogs, dialogIndex, updatedDialog)),
                        "updated", updatedDialog)
                  EXCEPT !.ret = 1]

\* showAsyncDialog(createContextAndOptions, defaultDismissValue) for the
\* method kind, called with the options o and o's fallback.
ShowAsyncDialogOp(s, kind, fallback, o) ==
  LET dialogId == s.idCounter
      s1 == [s EXCEPT !.idCounter = @ + 1,
                      !.promises[dialogId] = NewPromise(kind, fallback)]
  IN ShowOp(s1, [o EXCEPT !.id = dialogId,
                          !.onClose = [w |-> dialogId, f |-> o.onClose.f]])

\* registerContextDialog(name, factory)
RegisterContextDialogOp(s, name) ==
  [s EXCEPT !.contextDialogs = @ \cup {name}, !.ret = 0]

\* openContextDialog(name, options)
OpenContextDialogOp(s, name, o) ==
  IF name \notin s.contextDialogs
    THEN Throw(s, ErrNotRegistered)
    ELSE LET id == s.idCounter
         IN ShowOp([s EXCEPT !.idCounter = @ + 1], [o EXCEPT !.id = id])

\* destroy()
DestroyOp(s) ==
  IF s.destroyed
    THEN s
    ELSE [CancelPendingFocusRestore(s) EXCEPT
            !.destroyed = TRUE, !.savedFocus = NoEl,
            !.subscribed = FALSE, !.subscribers = <<>>,
            !.dialogs = <<>>, !.dialogsRef = @ + 1]

\* ----------------------------------------------------- the toast store
\* Observer (the toast store).  A toast is [id, title]; the store has one
\* subscriber (the toaster), whose calls are logged: "toast" for a Toast,
\* "dismiss" for {id, dismiss: true}.
DefaultLimit == 5

TSt ==
  [toasts |-> toasts, dismissedToasts |-> dismissedToasts, queue |-> queue,
   limit |-> limit, activeToasts |-> activeToasts,
   toastsCounter |-> toastsCounter, timers |-> timers,
   trace |-> <<>>, ret |-> 0]

TCommit(s, name) ==
  /\ toasts' = s.toasts
  /\ dismissedToasts' = s.dismissedToasts
  /\ queue' = s.queue
  /\ limit' = s.limit
  /\ activeToasts' = s.activeToasts
  /\ toastsCounter' = s.toastsCounter
  /\ timers' = s.timers
  /\ UNCHANGED dialogVars
  /\ trace' = s.trace
  /\ ret' = s.ret
  /\ op' = name

\* this.toasts.filter((t) => !this.dismissedToasts.has(t.id))
ActiveOf(s) ==
  LET NotDismissed(x) == x.id \notin s.dismissedToasts
  IN SelectSeq(s.toasts, NotDismissed)

\* _updateActiveToastsCache: the cache is replaced when the filter gives
\* other toasts than it holds.
UpdateActiveToastsCache(s) == [s EXCEPT !.activeToasts = ActiveOf(s)]

\* publish(data)
ToastPublish(s, x) == Log(s, "toast", x.id, 0)

AddToast(s, x) ==
  LET visibleCount == Len(ActiveOf(s))
  IN IF visibleCount >= s.limit
       THEN [s EXCEPT !.queue = Append(@, x)]
       ELSE ToastPublish(
              UpdateActiveToastsCache([s EXCEPT !.toasts = Append(@, x)]), x)

RECURSIVE ProcessQueue(_)
\* processQueue: the while loop, one iteration per call.
ProcessQueue(s) ==
  IF Len(s.queue) > 0 /\ Len(ActiveOf(s)) < s.limit
    THEN LET nextToast == Head(s.queue)
         IN ProcessQueue(
              ToastPublish(
                UpdateActiveToastsCache(
                  [s EXCEPT !.queue = Tail(@), !.toasts = Append(@, nextToast)]),
                nextToast))
    ELSE s

RECURSIVE PublishMatching(_, _, _)
\* The publish calls of this.toasts.map in create: one for every entry with
\* the id, in order.
PublishMatching(s, seq, id) ==
  IF seq = <<>> THEN s
  ELSE PublishMatching(IF Head(seq).id = id THEN ToastPublish(s, Head(seq)) ELSE s,
                       Tail(seq), id)

\* create(data); dataId = NoId is data without an id.
CreateOp(s, dataId, title) ==
  LET id == IF dataId # NoId THEN dataId ELSE s.toastsCounter
      s1 == IF dataId # NoId THEN s ELSE [s EXCEPT !.toastsCounter = @ + 1]
      alreadyExists == FindIndex(s1.toasts, id) # 0
      s2 == [s1 EXCEPT !.dismissedToasts = @ \ {id}]
      s3 == IF alreadyExists
              THEN UpdateActiveToastsCache(
                     [PublishMatching(s2, s2.toasts, id) EXCEPT
                        !.toasts = [i \in 1..Len(s2.toasts) |->
                                      IF s2.toasts[i].id = id
                                        THEN [id |-> id, title |-> title]
                                        ELSE s2.toasts[i]]])
              ELSE AddToast(s2, [id |-> id, title |-> title])
  IN [s3 EXCEPT !.ret = id]

RECURSIVE DismissEach(_, _)
\* for (const toast of this.toasts): add to dismissedToasts, tell subscribers.
DismissEach(s, seq) ==
  IF seq = <<>> THEN s
  ELSE DismissEach(
         Log([s EXCEPT !.dismissedToasts = @ \cup {Head(seq).id}],
             "dismiss", Head(seq).id, 0),
         Tail(seq))

TimerNotify(id) == <<"notify", id>>
TimerProcessQueue == <<"processQueue", NoId>>

\* dismiss(id?); id = NoId is the call without an id.
DismissOp(s, id) ==
  LET s1 == IF id # NoId
              THEN [UpdateActiveToastsCache(
                      [s EXCEPT !.dismissedToasts = @ \cup {id}])
                      EXCEPT !.timers = Append(@, TimerNotify(id))]
              ELSE UpdateActiveToastsCache(DismissEach(s, s.toasts))
  IN [s1 EXCEPT !.timers = Append(@, TimerProcessQueue), !.ret = id]

\* The callback of the timer that is due first.
TimerOp(s) ==
  LET timer == Head(s.timers)
      s1 == [s EXCEPT !.timers = Tail(@)]
  IN IF timer[1] = "notify"
       THEN Log(s1, "dismiss", timer[2], 0)
       ELSE ProcessQueue(s1)

\* setLimit(limit)
SetLimitOp(s, n) == [s EXCEPT !.limit = n]

\* ------------------------------------------- the Container's input routing
\* handleKeyboard(evt); the result is in ret (1: true) and preventDefault is
\* logged.
HandleKeyboardOp(s, key) ==
  LET topId == GetTopDialogRenderable(s)
  IN IF key = "escape" /\ Len(s.renderables) > 0 /\ topId # NoId
       THEN LET top == s.renderables[Len(s.renderables)]
                closeOnEscape ==
                  IF top.closeOnEscape # Undef
                    THEN top.closeOnEscape
                    ELSE s.containerOptions.closeOnEscape
            IN IF closeOnEscape = "false"
                 THEN [s EXCEPT !.ret = 0]
                 ELSE [CloseOp(Log(s, "preventDefault", topId, 0), topId)
                         EXCEPT !.ret = 1]
       ELSE [s EXCEPT !.ret = 0]

HandleBackdropClickOp(s) ==
  LET topId == GetTopDialogRenderable(s)
  IN IF topId = NoId
       THEN s
       ELSE LET top == s.renderables[Len(s.renderables)]
                s1 == Log(s, "onBackdropClick", topId, 0)
                closeOnClickOutside ==
                  IF top.closeOnClickOutside # Undef
                    THEN top.closeOnClickOutside
                    ELSE s1.containerOptions.closeOnClickOutside
            IN IF closeOnClickOutside = "true"
                 THEN [CloseOp(s1, topId) EXCEPT !.ret = 0]
                 ELSE s1

\* ------------------------------------------------------------- the inputs
Options(ids, contents, callbacks, escs, outs) ==
  [id : ids, content : contents,
   onClose : [w : {0}, f : callbacks], style : {NoStyle},
   closeOnEscape : escs, closeOnClickOutside : outs]

Updates(callbacks, escs, outs) ==
  [onClose : [w : {0}, f : callbacks], style : {NoStyle},
   closeOnEscape : escs, closeOnClickOutside : outs]

PromptKinds == {"prompt", "confirm", "alert", "choice"}

\* The fallback a caller may give (alert takes none).
Fallbacks(kind) ==
  IF kind = "confirm" THEN {Undef, "true"}
  ELSE IF kind = "alert" THEN {Undef}
  ELSE IF kind = "prompt" THEN {Undef, "x", "null"}
  ELSE {Undef, "x"}

\* The values content may pass to resolve(value) (for alert: dismiss(), which
\* is safeResolve itself, called without a value).
ResolveValues(kind) ==
  IF kind = "confirm" THEN {"true", "false"}
  ELSE IF kind = "alert" THEN {Undef}
  ELSE {"v"}

\* dismiss() that resolves with undefined for every kind.
DismissValueUndefined(kind) == Undef

\* dismiss() of the context: confirm resolves false, the others undefined.
DismissValue(kind) == IF kind = "confirm" THEN "false" ELSE Undef

\* ------------------------------------------------------------ the actions
Show(os) ==
  \E o \in os :
    /\ o.id = NoId => idCounter <= MaxId
    /\ (IF o.id = NoId THEN idCounter ELSE o.id) \notin Ids(dialogs)
         => Len(dialogs) < MaxStack
    /\ Commit(ShowOp(St, o), <<"show", o.id>>)

Close(ids) ==
  \E id \in ids : Commit(CloseOp(St, id), <<"close", id>>)

CloseAll == Commit(CloseAllOp(St), <<"closeAll", 0>>)

Replace(os) ==
  \E o \in os :
    /\ o.id = NoId => idCounter <= MaxId
    /\ Commit(ReplaceOp(St, o), <<"replace", o.id>>)

UpdateDialog(ids, us) ==
  \E id \in ids, u \in us :
    Commit(UpdateDialogOp(St, id, u), <<"updateDialog", id>>)

AsyncPrompt(kinds, os, cap) ==
  \E kind \in kinds, o \in os :
    \E fallback \in Fallbacks(kind) :
      /\ idCounter <= cap
      /\ idCounter \notin Ids(dialogs) => Len(dialogs) < MaxStack
      /\ Commit(ShowAsyncDialogOp(St, kind, fallback, o), <<kind, idCounter>>)

ContextDialogNames == {"deleteConfirm"}

RegisterContextDialog ==
  \E name \in ContextDialogNames :
    /\ name \notin contextDialogs
    /\ Commit(RegisterContextDialogOp(St, name), <<"registerContextDialog", 0>>)

OpenContextDialog(os) ==
  \E name \in ContextDialogNames, o \in os :
    /\ name \in contextDialogs
    /\ idCounter <= MaxId
    /\ idCounter \notin Ids(dialogs) => Len(dialogs) < MaxStack
    /\ Commit(OpenContextDialogOp(St, name, o), <<"openContextDialog", idCounter>>)

\* show(options) with options.content left out or not a function.
ShowMisuse(os) ==
  \E o \in os :
    Commit(ShowOp(St, o),
           <<IF o.content = Undef THEN "showMissingContent"
                                  ELSE "showInvalidContent", o.id>>)

\* openContextDialog(name, options) with a name that was not registered.
OpenUnregistered(os) ==
  \E name \in ContextDialogNames, o \in os :
    /\ name \notin contextDialogs
    /\ Commit(OpenContextDialogOp(St, name, o), <<"openUnregistered", 0>>)

\* Content of the prompt p calls resolve(v) of its context.
ContentResolve ==
  \E p \in DOMAIN promises :
    /\ promises[p].kind # "none"
    /\ \E v \in ResolveValues(promises[p].kind) :
         Commit(SafeResolve(St, p, v), <<"resolve", p>>)

\* Content of the prompt p calls dismiss() of its context.
ContentDismiss ==
  \E p \in DOMAIN promises :
    /\ promises[p].kind # "none"
    /\ Commit(SafeResolve(St, p, DismissValue(promises[p].kind)), <<"dismiss", p>>)

KeyPress ==
  \E key \in {"escape", "return"} :
    Commit(HandleKeyboardOp(St, key), <<key, 0>>)

BackdropClick == Commit(HandleBackdropClickOp(St), <<"backdropClick", 0>>)

\* The timer of restoreFocus fires.
FocusRestoreTick ==
  /\ liveTimers > 0
  /\ Commit(FocusRestoreCallback(St), <<"tick", 0>>)

\* A renderable inside an open dialog takes the focus (an input of its content).
FocusInDialog ==
  \E id \in Ids(renderables) :
    /\ ~(currentFocused = id /\ hasFocus)
    /\ Commit([St EXCEPT !.currentFocused = id, !.hasFocus = TRUE],
              <<"focusInDialog", id>>)

\* The application destroys the renderable that had the focus before.
DestroyX ==
  /\ ~xDestroyed
  /\ Commit([St EXCEPT !.xDestroyed = TRUE,
                       !.hasFocus = IF currentFocused = ElX THEN FALSE ELSE @],
            <<"destroyX", 0>>)

Destroy ==
  /\ ~destroyed
  /\ Commit(DestroyOp(St), <<"destroy", 0>>)

\* getDialogs(), getTopDialog(), isOpen(): getDialogs returns the array the
\* field holds (ret: its dialogsRef, 0 being the array held before the call).
Query ==
  \E q \in {"getDialogs", "getTopDialog", "isOpen"} :
    Commit([St EXCEPT !.ret = IF q = "getDialogs" THEN St.dialogsRef
                              ELSE IF q = "getTopDialog" THEN GetTopDialog(St)
                              ELSE IF IsOpen(St) THEN 1 ELSE 0],
           <<q, 0>>)

\* ------------------------------------------------- the toast store's calls
FirstTitle == "a"                 \* the message of a toast without an id
NextTitle == "b"                  \* the message of a toast created with an id
ToastEntries == Len(toasts) + Len(queue)
KnownToastIds == Ids(toasts) \cup Ids(queue) \cup dismissedToasts

\* toast(message): a new toast with an id from the counter.
ToastCreate ==
  /\ ToastEntries < MaxToasts
  /\ TCommit(CreateOp(TSt, NoId, FirstTitle), <<"toast", NoId>>)

\* toast(message, {id}) with an id the caller got from an earlier call.
ToastCreateWithId ==
  \E id \in KnownToastIds :
    /\ FindIndex(toasts, id) = 0 => ToastEntries < MaxToasts
    /\ TCommit(CreateOp(TSt, id, NextTitle), <<"toastWithId", id>>)

ToastDismiss ==
  \E id \in Ids(toasts) \cup Ids(queue) :
    /\ Len(timers) < MaxTimers
    /\ TCommit(DismissOp(TSt, id), <<"toastDismiss", id>>)

ToastDismissAll ==
  /\ Len(timers) < MaxTimers
  /\ TCommit(DismissOp(TSt, NoId), <<"toastDismiss", NoId>>)

ToastTimer ==
  /\ timers # <<>>
  /\ TCommit(TimerOp(TSt), <<"toastTimer", 0>>)

\* setLimit(n) before the first toast: the limit is fixed from then on.
Limits == {1, 2}
ToastSetLimit ==
  \E n \in Limits :
    /\ toasts = <<>> /\ queue = <<>> /\ op[1] = "new"
    /\ TCommit(SetLimitOp(TSt, n), <<"setLimit", n>>)

\* --------------------------------------------------------- specifications
InitAll(copts, subs) ==
  /\ dialogs = <<>>
  /\ dialogsRef = 0
  /\ idCounter = 1
  /\ savedFocus = NoEl
  /\ focusRestoreTimeout = FALSE
  /\ liveTimers = 0
  /\ destroyed = FALSE
  /\ subscribed = TRUE
  /\ subscribers \in subs
  /\ promises = [p \in AutoIds |-> NoPromise]
  /\ renderables = <<>>
  /\ visible = FALSE
  /\ containerOptions \in copts
  /\ currentFocused = ElX
  /\ hasFocus = TRUE
  /\ xDestroyed = FALSE
  /\ contextDialogs = {}
  /\ toasts = <<>>
  /\ dismissedToasts = {}
  /\ queue = <<>>
  /\ limit = DefaultLimit
  /\ activeToasts = <<>>
  /\ toastsCounter = 1
  /\ timers = <<>>
  /\ trace = <<>>
  /\ ret = 0
  /\ op = <<"new", 0>>

\* new DialogManager(ctx) and a Container on it, no other subscriber.
InitWith(copts) == InitAll(copts, {<<SubContainer>>})

ClickOutsideCloses == [closeOnEscape |-> Undef, closeOnClickOutside |-> "true"]

PlainOptions == Options({NoId}, {"ok"}, {0}, {Undef}, {Undef})

\* Spec: the stack and its order, with caller-supplied and generated ids.
StackOptions == Options({NoId} \cup CallerIds, {"ok"}, {0}, {Undef}, {Undef})

Init == InitWith({ClickOutsideCloses})

Next ==
  \/ Show(StackOptions)
  \/ Close(Ids(dialogs) \cup CallerIds \cup {NoId})
  \/ CloseAll
  \/ Replace(PlainOptions)
  \/ UpdateDialog(Ids(dialogs), Updates({CbPlain}, {Undef}, {Undef}))
  \/ KeyPress
  \/ BackdropClick
  \/ FocusRestoreTick

Spec == Init /\ [][Next]_vars

\* SpecIds: every method that puts an id on the stack.
NextIds ==
  \/ Show(StackOptions)
  \/ Close(Ids(dialogs) \cup {NoId})
  \/ AsyncPrompt({"confirm"}, PlainOptions, MaxId)
  \/ RegisterContextDialog
  \/ OpenContextDialog(PlainOptions)

SpecIds == Init /\ [][NextIds]_vars

\* SpecAsync: the async prompts and every way to complete them, with a
\* caller that also passes a prompt's id to close and updateDialog.
AsyncOptions == Options({NoId}, {"ok"}, {CbPlain}, {Undef}, {Undef})
StrIdOptions == Options({StrId}, {"ok"}, {0}, {Undef}, {Undef})

NextAsync ==
  \/ AsyncPrompt(PromptKinds, AsyncOptions, MaxPrompts)
  \/ ContentResolve
  \/ ContentDismiss
  \/ Close(1..MaxPrompts \cup {NoId})
  \/ CloseAll
  \/ Replace(StrIdOptions)
  \/ Show(StrIdOptions)
  \/ UpdateDialog(Ids(dialogs), Updates({CbPlain}, {Undef}, {Undef}))
  \/ KeyPress
  \/ BackdropClick

SpecAsync == Init /\ [][NextAsync]_vars

\* SpecFocus: saving and restoring the focus.
NextFocus ==
  \/ Show(PlainOptions)
  \/ Close(Ids(dialogs) \cup {NoId})
  \/ CloseAll
  \/ Replace(PlainOptions)
  \/ FocusRestoreTick
  \/ FocusInDialog
  \/ DestroyX

SpecFocus == Init /\ [][NextFocus]_vars

\* SpecCallbacks: onClose callbacks that call back into the manager.
CallbackOptions ==
  Options({NoId}, {"ok"}, {CbPlain, CbCloseAll, CbCloseTop}, {Undef}, {Undef})

NextCallbacks ==
  \/ Show(CallbackOptions)
  \/ Close(Ids(dialogs) \cup {NoId})
  \/ CloseAll
  \/ Replace(CallbackOptions)
  \/ KeyPress
  \/ BackdropClick

SpecCallbacks == Init /\ [][NextCallbacks]_vars

\* SpecChain: onClose callbacks that open the next dialog.  A step is taken
\* while the counter leaves room for the dialogs the callbacks may open.
ChainOptions == Options({NoId}, {"ok"}, {CbPlain, CbShow, CbCloseAll}, {Undef}, {Undef})

OpeningCallbacks ==
  Cardinality({i \in 1..Len(dialogs) : dialogs[i].onClose.f = CbShow})

ChainRoom == idCounter + OpeningCallbacks <= MaxId + 1

NextChain ==
  \/ (ChainRoom /\ Show(ChainOptions))
  \/ (ChainRoom /\ Close(Ids(dialogs) \cup {NoId}))
  \/ (ChainRoom /\ CloseAll)
  \/ (ChainRoom /\ Replace(ChainOptions))

SpecChain == Init /\ [][NextChain]_vars

\* SpecErrors: misuse, content factories that throw and subscribers that
\* throw, on a manager that may be destroyed.
NotAFunction == "string"
ErrorOptions == Options({NoId, StrId}, {"ok", BadContent}, {CbPlain}, {Undef}, {Undef})
MisuseOptions == Options({NoId, StrId}, {Undef, NotAFunction}, {CbPlain}, {Undef}, {Undef})
ErrorUpdates == Updates({CbPlain}, {Undef}, {Undef})

InitErrors ==
  InitAll({ClickOutsideCloses},
          {<<SubContainer>>, <<SubThrows, SubContainer, SubListens>>})

NextErrors ==
  \/ Show(ErrorOptions)
  \/ ShowMisuse(MisuseOptions)
  \/ RegisterContextDialog
  \/ OpenUnregistered(PlainOptions)
  \/ Close(Ids(dialogs) \cup {NoId})
  \/ UpdateDialog(Ids(dialogs), ErrorUpdates)
  \/ Destroy

SpecErrors == InitErrors /\ [][NextErrors]_vars

\* SpecUpdate: updateDialog with style objects of one key each, for ids
\* that are in the stack and ids that are not.
StyleUpdates ==
  [onClose : {NoCallback},
   style : {NoStyle,
            [NoStyle EXCEPT !.width = "40"],
            [NoStyle EXCEPT !.width = "60"],
            [NoStyle EXCEPT !.border = "single"]},
   closeOnEscape : {Undef}, closeOnClickOutside : {Undef}]

NextUpdate ==
  \/ Show(PlainOptions)
  \/ Close(Ids(dialogs) \cup {NoId})
  \/ UpdateDialog(1..MaxId, StyleUpdates)

SpecUpdate == Init /\ [][NextUpdate]_vars

\* SpecConcurrent: several prompts pending at once, completed and closed in
\* any order.
NextConcurrent ==
  \/ AsyncPrompt({"confirm", "choice"}, AsyncOptions, MaxPrompts + 1)
  \/ ContentResolve
  \/ ContentDismiss
  \/ Close(1..(MaxPrompts + 1) \cup {NoId})
  \/ KeyPress
  \/ BackdropClick

SpecConcurrent == Init /\ [][NextConcurrent]_vars

\* SpecToast: the toast store under a limit set before the first toast.
NextToast ==
  \/ ToastSetLimit
  \/ ToastCreate
  \/ ToastCreateWithId
  \/ ToastDismiss
  \/ ToastDismissAll
  \/ ToastTimer

SpecToast == Init /\ [][NextToast]_vars

\* SpecDestroy: a manager with dialogs and pending prompts that is destroyed.
NextDestroy ==
  \/ (~destroyed /\ AsyncPrompt(PromptKinds, AsyncOptions, MaxPrompts))
  \/ Show(AsyncOptions)
  \/ Close(Ids(dialogs) \cup {NoId})
  \/ Destroy

SpecDestroy == Init /\ [][NextDestroy]_vars

\* SpecKeys: key presses on Containers with and without a closeOnEscape
\* option, over records with and without their own.
EscapeValues == {Undef, "true", "false"}
KeyOptions == Options({NoId, StrId}, {"ok"}, {0}, EscapeValues, {Undef})

InitKeys ==
  InitWith([closeOnEscape : EscapeValues, closeOnClickOutside : {Undef}])

NextKeys ==
  \/ Show(KeyOptions)
  \/ Close({NoId})
  \/ UpdateDialog(Ids(dialogs), Updates({0}, {"true", "false"}, {Undef}))
  \/ KeyPress

SpecKeys == InitKeys /\ [][NextKeys]_vars

\* SpecClicks: backdrop clicks on Containers with and without a
\* closeOnClickOutside option, over records with and without their own.
ClickValues == {Undef, "true", "false"}
ClickOptions == Options({NoId, StrId}, {"ok"}, {0}, {Undef}, ClickValues)

InitClicks ==
  InitWith([closeOnEscape : {Undef}, closeOnClickOutside : ClickValues])

NextClicks ==
  \/ Show(ClickOptions)
  \/ Close({NoId})
  \/ UpdateDialog(Ids(dialogs), Updates({0}, {Undef}, {"true", "false"}))
  \/ BackdropClick

SpecClicks == InitClicks /\ [][NextClicks]_vars

\* SpecOrder: the steps of one show and of one close, watched by subscribers
\* that read the stack before and after the Container is told.
InitOrder ==
  InitAll({ClickOutsideCloses}, {<<SubReads, SubContainer, SubReads>>})

NextOrder ==
  \/ Show(Options({NoId, StrId}, {"ok"}, {0, CbPlain}, {Undef}, {Undef}))
  \/ Close(Ids(dialogs) \cup {NoId})
  \/ FocusRestoreTick

SpecOrder == InitOrder /\ [][NextOrder]_vars

\* SpecShutdown: saving and restoring the focus while the application
\* destroys the focused element or the manager.
NextShutdown ==
  \/ Show(PlainOptions)
  \/ Close(Ids(dialogs) \cup {NoId})
  \/ FocusRestoreTick
  \/ FocusInDialog
  \/ DestroyX
  \/ Destroy

SpecShutdown == Init /\ [][NextShutdown]_vars

\* SpecDetach: a caller that updates the record of a pending prompt, through
\* updateDialog or through show with the prompt's id.
NextDetach ==
  \/ AsyncPrompt({"confirm"}, AsyncOptions, MaxPrompts)
  \/ UpdateDialog(Ids(dialogs), Updates({0, CbPlain}, {Undef}, {Undef}))
  \/ Show(Options(1..MaxPrompts, {"ok"}, {0, CbPlain}, {Undef}, {Undef}))
  \/ Close(Ids(dialogs) \cup {NoId})
  \/ ContentResolve

SpecDetach == Init /\ [][NextDetach]_vars

\* SpecContext: the content of async prompts calls resolve(v) and dismiss() of
\* its context; the step of resolve(v) carries the value in its name.
ContextResolve ==
  \E p \in DOMAIN promises :
    /\ promises[p].kind # "none"
    /\ \E v \in ResolveValues(promises[p].kind) :
         Commit(SafeResolve(St, p, v), <<"resolve " \o v, p>>)

NextContext ==
  \/ AsyncPrompt(PromptKinds, AsyncOptions, MaxPrompts + 1)
  \/ ContextResolve
  \/ ContentDismiss
  \/ Close({NoId})

SpecContext == Init /\ [][NextContext]_vars

\* SpecRefs: every operation on the stack, for ids that are in it and ids
\* that are not, and the queries.
RefIds == {1, StrId}

NextRefs ==
  \/ Show(Options({NoId, StrId}, {"ok"}, {0}, {Undef}, {Undef}))
  \/ Close(RefIds \cup {NoId})
  \/ CloseAll
  \/ Replace(PlainOptions)
  \/ UpdateDialog(RefIds, Updates({CbPlain}, {Undef}, {Undef}))
  \/ Query

SpecRefs == Init /\ [][NextRefs]_vars

\* ------------------------------------------------------------ properties
\* What the last handler did, read from its trace.
InTrace(kind, a) == \E i \in 1..Len(trace) : trace[i][1] = kind /\ trace[i][2] = a

CountIn(tr, kind, a) ==
  Cardinality({i \in 1..Len(tr) : tr[i][1] = kind /\ tr[i][2] = a})

IdSeq(seq) == [i \in 1..Len(seq) |-> seq[i].id]

Prompts == {p \in DOMAIN promises : promises[p].kind # "none"}

\* C1: the promise of an async prompt is resolved exactly once, with the
\* value of the first completion. Once it is settled no later step changes it
\* (close(id), ESC, backdrop click, a second resolve or dismiss), the
\* executor's resolve is called at most once, and a second resolve or dismiss
\* from the content does nothing at all.
C1_SingleResolution ==
  [][\A p \in Prompts :
       /\ promises'[p].calls <= 1
       /\ promises[p].settled =>
            /\ promises'[p] = promises[p]
            /\ op' \in {<<"resolve", p>>, <<"dismiss", p>>} =>
                 /\ dialogs' = dialogs
                 /\ renderables' = renderables
                 /\ promises' = promises
                 /\ trace' = <<>>]_vars

\* A confirm without fallback that its content resolved true, after a
\* close(id) that came later and did nothing.
C1_Witness ==
  \E p \in Prompts :
    /\ promises[p].kind = "confirm"
    /\ promises[p].fallback = "undefined"
    /\ promises[p].settled
    /\ promises[p].value = "true"
    /\ promises[p].calls = 1
    /\ op = <<"close", p>>
    /\ trace = <<>>

\* C2: an async prompt is never left pending once its dialog is gone: a
\* prompt whose promise is not settled still has its record in the stack.
C2_NeverLeftPending ==
  \A p \in Prompts : ~promises[p].settled => p \in Ids(dialogs)

\* C3: when the record of a pending prompt leaves the stack in a step other
\* than resolve or dismiss of its own content, its promise is resolved to the
\* caller's fallback if the caller gave one, and otherwise to false for
\* confirm and undefined for prompt, alert and choice.
C3_FallbackOnDismissal ==
  [][\A p \in Prompts :
       (/\ ~promises[p].settled
        /\ p \in Ids(dialogs)
        /\ p \notin Ids(dialogs')
        /\ op' \notin {<<"resolve", p>>, <<"dismiss", p>>})
       => /\ promises'[p].settled
          /\ promises'[p].value =
               IF promises[p].fallback # "undefined" THEN promises[p].fallback
               ELSE IF promises[p].kind = "confirm" THEN "false"
               ELSE "undefined"]_vars

\* C4: focus always returns to the element X that was focused before the
\* first dialog opened: whenever the stack is empty, no restore timer is
\* pending and X still exists, X is the focused renderable.
C4_FocusReturns ==
  (dialogs = <<>> /\ ~focusRestoreTimeout /\ ~xDestroyed)
    => (currentFocused = ElX /\ hasFocus)

\* C5: the show that opens the first dialog saves and blurs the focused
\* renderable before it returns; the step that closes the last dialog focuses
\* nothing and leaves the refocus to the timer; only the timer's callback
\* calls focus(), and it focuses the saved renderable.
C5_FocusRestoreOrdering ==
  [][/\ (dialogs = <<>> /\ dialogs' # <<>> /\ currentFocused # NoEl) =>
          /\ savedFocus' = currentFocused
          /\ CountIn(trace', "blur", currentFocused) = 1
          /\ ~hasFocus'
     /\ (dialogs # <<>> /\ dialogs' = <<>>) =>
          /\ \A i \in 1..Len(trace') : trace'[i][1] # "focus"
          /\ hasFocus' => (hasFocus /\ currentFocused' = currentFocused)
          /\ (savedFocus = ElX /\ ~xDestroyed) =>
               (focusRestoreTimeout' /\ savedFocus' = ElX)
     /\ \A i \in 1..Len(trace') : trace'[i][1] = "focus" => op'[1] = "tick"
     /\ (op'[1] = "tick" /\ savedFocus = ElX /\ ~xDestroyed) =>
          (currentFocused' = ElX /\ hasFocus' /\ ~focusRestoreTimeout')]_vars

\* The timer fired after the last dialog closed and focused X again.
C5_Witness ==
  /\ op = <<"tick", 0>>
  /\ dialogs = <<>>
  /\ InTrace("focus", ElX)
  /\ currentFocused = ElX
  /\ hasFocus

\* C6: the dialog the Container treats as topmost for ESC and backdrop
\* clicks is the Manager's topmost record: when every record has its
\* renderable, the last key of the Container's map is the id of the last
\* record of the stack.
C6_ContainerTopIsManagerTop ==
  (dialogs # <<>> /\ Ids(renderables) = Ids(dialogs))
    => GetTopDialogRenderable(St) = GetTopDialog(St)

\* C7: a record that a step removes from the stack has its onClose called
\* exactly once in that step, whatever removed it and however the callbacks
\* nest; a record that stays has no onClose called, and no onClose is called
\* for an id that was not in the stack.
C7_OnCloseExactlyOnce ==
  [][/\ \A i \in 1..Len(dialogs) :
          LET d == dialogs[i]
              calls == Cardinality({k \in 1..Len(trace') :
                         trace'[k] = <<"onClose", d.id, d.onClose.f>>})
          IN /\ CountIn(trace', "onClose", d.id) = calls
             /\ calls = IF d.id \in Ids(dialogs') /\ CountIn(trace', "close", d.id) = 0
                          THEN 0
                        ELSE IF d.onClose.f = 0 THEN 0
                        ELSE 1
     /\ \A k \in 1..Len(trace') :
          trace'[k][1] = "onClose" => trace'[k][2] \in Ids(dialogs)]_vars

\* A closeAll whose first onClose closed the others from inside: the trace
\* holds an onClose that calls closeAll and, after it, another record's.
C7_Witness ==
  \E i, j \in 1..Len(trace) :
    /\ i < j
    /\ trace[i][1] = "onClose" /\ trace[i][3] = CbCloseAll
    /\ trace[j][1] = "onClose" /\ trace[j][2] # trace[i][2]
    /\ dialogs = <<>>

\* C8: no two records of the stack have the same id.
C8_UniqueIds ==
  \A i, j \in 1..Len(dialogs) : i # j => dialogs[i].id # dialogs[j].id

\* A show, confirm or openContextDialog whose generated id was the id of a
\* record of the stack, with other records around it.
C8_Witness ==
  /\ op[1] \in {"show", "confirm", "openContextDialog"}
  /\ op[1] = "show" => op[2] = NoId
  /\ ret = NumId
  /\ InTrace("dialog", NumId)
  /\ ~InTrace("onOpen", NumId)
  /\ Len(dialogs) >= 2

\* C9: the stack keeps the order in which its ids were first shown: show
\* of a new id appends it and makes it getTopDialog(), close(id) removes that
\* record alone, close() removes the last record, and no step changes the
\* relative order of the records that stay or puts a new record below one.
C9_StackOrder ==
  [][LET old == IdSeq(GetDialogs([dialogs |-> dialogs]))
         new == IdSeq(GetDialogs([dialogs |-> dialogs']))
         Pos(seq, x) == CHOOSE i \in 1..Len(seq) : seq[i] = x
         shown == IF op'[2] # NoId THEN op'[2] ELSE idCounter
     IN /\ (op'[1] = "show" /\ shown \notin Ids(dialogs)) =>
             /\ new = Append(old, shown)
             /\ GetTopDialog([dialogs |-> dialogs']) = shown
        /\ (op'[1] = "close" /\ op'[2] # NoId) =>
             LET Keep(x) == x # op'[2] IN new = SelectSeq(old, Keep)
        /\ (op'[1] = "close" /\ op'[2] = NoId /\ old # <<>>) =>
             new = SubSeq(old, 1, Len(old) - 1)
        /\ \A i, j \in 1..Len(new) :
             (i < j /\ new[j] \in Ids(dialogs)) =>
               /\ new[i] \in Ids(dialogs)
               /\ Pos(old, new[i]) < Pos(old, new[j])]_vars

\* close(2) took the middle record out of a stack of three.
C9_Witness ==
  /\ op = <<"close", 2>>
  /\ ret = 2
  /\ IdSeq(dialogs) = <<1, 3>>

\* C10: show with the id of a record of the stack leaves the length and the
\* order of the stack as they were, puts the merged record where the old one
\* was, leaves the other records alone and returns the id.
C10_UpdateInPlace ==
  [][LET shown == IF op'[2] # NoId THEN op'[2] ELSE idCounter
     IN (op'[1] = "show" /\ shown \in Ids(dialogs)) =>
          /\ Len(dialogs') = Len(dialogs)
          /\ ret' = shown
          /\ \A i \in 1..Len(dialogs) :
               IF dialogs[i].id = shown
                 THEN dialogs'[i].id = shown
                 ELSE dialogs'[i] = dialogs[i]]_vars

\* show({id: "a"}) while "a" lay under another record: nothing was opened
\* and "a" is still the first record.
C10_Witness ==
  /\ op = <<"show", StrId>>
  /\ ret = StrId
  /\ InTrace("dialog", StrId)
  /\ ~InTrace("onOpen", StrId)
  /\ Len(dialogs) >= 2
  /\ dialogs[1].id = StrId

\* The events the last handler published, whatever their shape.
Published(tr) ==
  Cardinality({k \in 1..Len(tr) : tr[k][1] \in {"dialog", "close", "updated"}})

CountKind(tr, kind) == Cardinality({k \in 1..Len(tr) : tr[k][1] = kind})

\* C11: show with the id of a record of the stack publishes one event of
\* the shape {id, updated: true} and no event of the shape of an added
\* Dialog, so that a subscriber tells the update from an addition.
C11_UpdatePublishesUpdated ==
  (op[1] = "show" /\ ret # 0 /\ ~InTrace("onOpen", ret))
    => (CountIn(trace, "updated", ret) = 1 /\ CountIn(trace, "dialog", ret) = 0)

\* C12: show({id: X}) and then show({id: X}): each call publishes exactly
\* one event; the first, for the new id, calls onOpen once; the second, for
\* the id in the stack, calls no onOpen; neither calls an onClose, and the
\* stack holds one record with id X afterwards.
C12_LoadingToSuccess ==
  [][LET shown == IF op'[2] # NoId THEN op'[2] ELSE idCounter
     IN op'[1] = "show" =>
          /\ Published(trace') = 1
          /\ CountKind(trace', "onClose") = 0
          /\ CountKind(trace', "onOpen") = IF shown \in Ids(dialogs) THEN 0 ELSE 1
          /\ Cardinality({i \in 1..Len(dialogs') : dialogs'[i].id = shown}) = 1
          /\ Len(dialogs') = Len(dialogs) + IF shown \in Ids(dialogs) THEN 0 ELSE 1]_vars

\* The second show({id: "load"}) of a record that carries an onClose: one
\* event and nothing else.
C12_Witness ==
  /\ op = <<"show", StrId>>
  /\ trace = <<<<"dialog", StrId, 0>>>>
  /\ \E i \in 1..Len(dialogs) : dialogs[i].id = StrId /\ dialogs[i].onClose.f = CbPlain

\* The ids of the trace entries of one kind, in the order they were logged.
TraceIds(tr, kind) ==
  LET OfKind(e) == e[1] = kind
      sel == SelectSeq(tr, OfKind)
  IN [i \in 1..Len(sel) |-> sel[i][2]]

\* Where the first entry of a kind for an id is in the trace (0: nowhere).
TracePos(tr, kind, a) ==
  IF \E k \in 1..Len(tr) : tr[k][1] = kind /\ tr[k][2] = a
    THEN CHOOSE k \in 1..Len(tr) :
           /\ tr[k][1] = kind /\ tr[k][2] = a
           /\ \A j \in 1..(k - 1) : ~(tr[j][1] = kind /\ tr[j][2] = a)
    ELSE 0

TopmostFirst(seq) == [i \in 1..Len(seq) |-> seq[Len(seq) + 1 - i].id]

C14_IdempotentClose ==
  [][op'[1] = "close" =>
       IF (op'[2] # NoId /\ op'[2] \notin Ids(dialogs))
            \/ (op'[2] = NoId /\ dialogs = <<>>)
         THEN /\ ret' = 0
              /\ trace' = <<>>
              /\ UNCHANGED <<dialogs, idCounter, savedFocus, focusRestoreTimeout,
                             destroyed, subscribed, subscribers, promises,
                             renderables, visible, containerOptions,
                             currentFocused, hasFocus, xDestroyed,
                             contextDialogs>>
         ELSE /\ ret' # 0
              /\ ret' \notin Ids(dialogs')]_vars

\* close("missing") while the restore timer of an earlier close is pending.
C14_Witness ==
  /\ op = <<"close", StrId>>
  /\ ret = 0
  /\ trace = <<>>
  /\ dialogs = <<>>
  /\ focusRestoreTimeout
  /\ idCounter > 1

\* What replace does when closeAll and show are run one after the other.
ReplaceRuns ==
  LET added == TracePos(trace', "dialog", ret')
      CloseOrOnClose(k) == trace'[k][1] \in {"close", "onClose"}
      HasCallback(d) == d.onClose.f # 0
      WasOpen(id) == id \in Ids(dialogs)
  IN /\ SelectSeq(TraceIds(trace', "close"), WasOpen) = TopmostFirst(dialogs)
     /\ SelectSeq(TraceIds(trace', "onClose"), WasOpen)
          = TopmostFirst(SelectSeq(dialogs, HasCallback))
     /\ \A i \in 1..Len(dialogs) :
          dialogs[i].onClose.f # 0 =>
            TracePos(trace', "close", dialogs[i].id)
              < TracePos(trace', "onClose", dialogs[i].id)
     /\ added # 0
     /\ \A k \in 1..Len(trace') : CloseOrOnClose(k) => k < added
     /\ added < TracePos(trace', "onOpen", ret')
     /\ dialogs'[Len(dialogs')].id = ret'

ThrewOnly(e) ==
  /\ trace' = <<<<"throw", e, 0>>>>
  /\ ret' = 0
  /\ UNCHANGED <<dialogs, idCounter, savedFocus, focusRestoreTimeout,
                 destroyed, subscribed, subscribers, promises, renderables,
                 visible, containerOptions, currentFocused, hasFocus,
                 xDestroyed, contextDialogs>>

\* C15: show without content, show with content that is no function, show
\* on a destroyed manager and openContextDialog with an unregistered name
\* throw and leave the Manager unchanged: no record, no event, no callback,
\* no focus captured, no id taken from the counter.
C15_MisuseThrowsAndChangesNothing ==
  [][/\ op'[1] = "showMissingContent" =>
          ThrewOnly(IF destroyed THEN ErrDestroyed ELSE ErrMissingContent)
     /\ op'[1] = "showInvalidContent" =>
          ThrewOnly(IF destroyed THEN ErrDestroyed ELSE ErrInvalidContent)
     /\ (op'[1] = "show" /\ destroyed) => ThrewOnly(ErrDestroyed)
     /\ op'[1] = "openUnregistered" => ThrewOnly(ErrNotRegistered)]_vars

\* show({}) on an empty stack, with a renderable focused that a show would
\* have blurred and subscribers that an event would have reached.
C15_Witness ==
  /\ op = <<"showMissingContent", NoId>>
  /\ trace = <<<<"throw", ErrMissingContent, 0>>>>
  /\ dialogs = <<>>
  /\ currentFocused = ElX /\ hasFocus
  /\ Len(subscribers) = 3

\* How often the subscriber at a place of the Set was called.
Notified(tr, at) ==
  Cardinality({k \in 1..Len(tr) : tr[k][1] = "notify" /\ tr[k][3] = at})

\* The state a handler starts from when only the Container subscribes.
WithoutObservers == [St EXCEPT !.subscribers = <<SubContainer>>]

\* The stack, the Container's renderables, the counter and the result are
\* those of the run r.
SameOutcome(r) ==
  /\ dialogs' = r.dialogs
  /\ renderables' = r.renderables
  /\ idCounter' = r.idCounter
  /\ savedFocus' = r.savedFocus
  /\ ret' = r.ret

\* C16: with a subscriber that throws ahead of the Container and of a
\* listener, every event a handler publishes reaches all three, show, close
\* and updateDialog do not throw for it, and the stack, the Container and
\* the result are what the same call gives without the thrower.
C16_SubscriberExceptions ==
  [][subscribers = <<SubThrows, SubContainer, SubListens>> =>
       /\ op'[1] \in {"show", "close", "updateDialog"} =>
            /\ Notified(trace', 1) = Published(trace')
            /\ Notified(trace', 3) = Published(trace')
            /\ CountKind(trace', "throw") = IF op'[1] = "show" /\ destroyed THEN 1 ELSE 0
       /\ op'[1] = "close" => SameOutcome(CloseOp(WithoutObservers, op'[2]))
       /\ op'[1] = "show" =>
            \E o \in ErrorOptions :
              o.id = op'[2] /\ SameOutcome(ShowOp(WithoutObservers, o))
       /\ op'[1] = "updateDialog" =>
            \E u \in ErrorUpdates :
              SameOutcome(UpdateDialogOp(WithoutObservers, op'[2], u))]_vars

\* A close whose removed event the first subscriber threw on and the
\* listener after the Container still received.
C16_Witness ==
  /\ subscribers = <<SubThrows, SubContainer, SubListens>>
  /\ op[1] = "close"
  /\ ret # 0
  /\ \E k \in 1..Len(trace) : trace[k] = <<"subscriberError", ret, 1>>
  /\ \E k \in 1..Len(trace) : trace[k] = <<"notify", ret, 3>>
  /\ ret \notin Ids(renderables)
  /\ dialogs # <<>>

\* C17: a content factory that throws is never swallowed: a show that
\* returns an id has given the record its renderable in the Container.
C17_ContentErrorPropagates ==
  (op[1] = "show" /\ ret # 0 /\ subscribed) => ret \in Ids(renderables)

\* C18: updateDialog(id, updates) for an id of the stack returns true,
\* publishes one {id, updated: true} event and calls no callback; the stack
\* keeps its length and order, the other records are untouched and the
\* record keeps every field but its style, to which the keys of
\* updates.style are added, replacing the values of keys it had.  For an id
\* the stack does not hold it returns false and changes nothing.
C18_UpdateDialogMerges ==
  [][op'[1] = "updateDialog" =>
       IF op'[2] \in Ids(dialogs)
         THEN /\ ret' = 1
              /\ trace' = <<<<"updated", op'[2], 0>>>>
              /\ Len(dialogs') = Len(dialogs)
              /\ \A i \in 1..Len(dialogs) :
                   IF dialogs[i].id # op'[2]
                     THEN dialogs'[i] = dialogs[i]
                     ELSE \E u \in StyleUpdates :
                            dialogs'[i] =
                              [dialogs[i] EXCEPT
                                 !.style.width =
                                   IF u.style.width # "undefined"
                                     THEN u.style.width ELSE @,
                                 !.style.border =
                                   IF u.style.border # "undefined"
                                     THEN u.style.border ELSE @]
         ELSE /\ ret' = 0
              /\ trace' = <<>>
              /\ UNCHANGED <<dialogs, idCounter, savedFocus, focusRestoreTimeout,
                             destroyed, subscribed, subscribers, promises,
                             renderables, visible, containerOptions,
                             currentFocused, hasFocus, xDestroyed,
                             contextDialogs>>]_vars

\* updateDialog(1, {style: {...}}) on the lower of two records, whose style
\* has the keys that two updates gave it, next to a record with another.
C18_Witness ==
  /\ op = <<"updateDialog", 1>>
  /\ ret = 1
  /\ Len(dialogs) = 2
  /\ dialogs[1].id = 1
  /\ dialogs[1].style = [width |-> "60", border |-> "single"]
  /\ dialogs[2].style = [width |-> "40", border |-> "undefined"]

\* C20: concurrent prompts are independent.  Resolving, dismissing or
\* closing the prompt q, and an ESC or backdrop click that closes the
\* topmost one, removes that one record and settles that one promise: every
\* other prompt keeps its promise as it was and its record in the stack,
\* and the records that stay keep their order.
C20_ConcurrentPromptsIndependent ==
  [][op'[1] \in {"resolve", "dismiss", "close", "escape", "backdropClick"} =>
       LET removed == Ids(dialogs) \ Ids(dialogs')
           target == IF op'[1] \in {"resolve", "dismiss"} \/ op'[2] # NoId
                       THEN {op'[2]}
                     ELSE IF dialogs = <<>> THEN {}
                     ELSE {dialogs[Len(dialogs)].id}
           Stays(d) == d.id \notin target
       IN /\ removed \subseteq target
          /\ Ids(dialogs') \subseteq Ids(dialogs)
          /\ \A p \in Prompts \ target : promises'[p] = promises[p]
          /\ \A p \in Prompts : promises'[p].settled => p \notin Ids(dialogs')
          /\ dialogs' = SelectSeq(dialogs, Stays) \/ dialogs' = dialogs]_vars

\* Of two pending prompts the lower one was resolved by its content: its
\* record is gone, the upper prompt is pending and in the stack.
C20_Witness ==
  /\ op = <<"resolve", 1>>
  /\ promises[1].settled
  /\ promises[2].kind # "none"
  /\ ~promises[2].settled
  /\ IdSeq(dialogs) = <<2>>

\* Whether the call named by o adds, removes or updates a record of the
\* stack it finds.
Mutates(o) ==
  \/ o[1] \in {"show", "replace"}
  \/ o[1] = "close" /\ o[2] # NoId /\ o[2] \in Ids(dialogs)
  \/ o[1] = "close" /\ o[2] = NoId /\ dialogs # <<>>
  \/ o[1] = "closeAll" /\ dialogs # <<>>
  \/ o[1] = "updateDialog" /\ o[2] \in Ids(dialogs)

\* C21: getDialogs() returns the same array after a call that does not
\* change the stack (a query, close of an id that is not open, updateDialog
\* of an id that is not open, closeAll of the empty stack), and another
\* array after every call that adds, removes or updates a record.
C21_StableReference ==
  [][IF Mutates(op')
       THEN dialogsRef' > 0
       ELSE dialogsRef' = 0 /\ dialogs' = dialogs]_vars

\* updateDialog of an id that is not open, with two records open: the array
\* is the one getDialogs returned before.
C21_Witness ==
  /\ op[1] = "updateDialog"
  /\ op[2] \notin Ids(dialogs)
  /\ Len(dialogs) = 2
  /\ ret = 0
  /\ dialogsRef = 0

\* C22: under a limit fixed by setLimit(n), the toasts that are active (shown
\* and not dismissed) are never more than n.
C22_ActiveWithinLimit ==
  /\ Len(ActiveOf(TSt)) <= limit
  /\ Len(activeToasts) <= limit

\* The calls that take the id from the counter.
TakesCounterId(o) ==
  \/ o[1] = "show" /\ o[2] = NoId
  \/ o[1] \in PromptKinds
  \/ o[1] = "openContextDialog"

\* C23: show() without an id, the async prompts and openContextDialog always
\* add a new record on top: the stack grows by one, the id returned is none
\* of the ids that were in the stack, the record with it is topmost and its
\* onOpen is called, also after dialogs with numeric ids of the caller.
C23_GeneratedIdIsNew ==
  [][TakesCounterId(op') =>
       /\ Len(dialogs') = Len(dialogs) + 1
       /\ ret' \notin Ids(dialogs)
       /\ dialogs'[Len(dialogs')].id = ret'
       /\ CountIn(trace', "onOpen", ret') = 1]_vars

\* C24: with a Container subscribed since the manager was created, after
\* every operation of the manager (also a show whose content factory throws)
\* the ids that have a visual element in the Container are the ids of the
\* manager's stack.
C24_ContainerMirrorsStack ==
  ~destroyed => Ids(renderables) = Ids(dialogs)

\* C25: destroy() on a manager with open dialogs closes them: the onClose of
\* every record that is open is called, so the promise of every prompt that
\* is pending is resolved with its fallback.
C25_DestroyClosesDialogs ==
  [][op'[1] = "destroy" =>
       /\ \A i \in 1..Len(dialogs) :
            dialogs[i].onClose.f # 0 =>
              CountIn(trace', "onClose", dialogs[i].id) = 1
       /\ \A p \in Prompts :
            (~promises[p].settled /\ p \in Ids(dialogs)) =>
              /\ promises'[p].settled
              /\ promises'[p].value =
                   Coalesce(promises[p].fallback,
                            DefaultDismissValue(promises[p].kind))]_vars

\* The first of the values that is defined.
FirstDefined(a, b, c) == IF a # Undef THEN a ELSE IF b # Undef THEN b ELSE c

EffectiveCloseOnEscape ==
  FirstDefined(dialogs[Len(dialogs)].closeOnEscape,
               containerOptions.closeOnEscape, "true")

\* C26: on ESC with a non-empty stack the effective closeOnEscape is the
\* topmost record's value if defined, else the container option, else true;
\* if it is false the event is not consumed and no dialog closes, otherwise
\* preventDefault is called and exactly the topmost dialog is closed.  With
\* an empty stack or another key nothing is consumed or closed.
C26_EscapeClosesTopmost ==
  [][op'[1] \in {"escape", "return"} =>
       IF op'[1] = "escape" /\ dialogs # <<>> /\ EffectiveCloseOnEscape # "false"
         THEN /\ CountKind(trace', "preventDefault") = 1
              /\ dialogs' = SubSeq(dialogs, 1, Len(dialogs) - 1)
              /\ ret' = 1
         ELSE /\ CountKind(trace', "preventDefault") = 0
              /\ dialogs' = dialogs
              /\ ret' = 0]_vars

EffectiveCloseOnClickOutside ==
  FirstDefined(dialogs[Len(dialogs)].closeOnClickOutside,
               containerOptions.closeOnClickOutside, "false")

\* C27: on a backdrop click while a dialog is open the onBackdropClick of the
\* topmost record is called once, whether or not the click closes the dialog,
\* and no other record's; the topmost dialog is closed exactly when the
\* effective closeOnClickOutside (the topmost record's value if defined, else
\* the container option, else false) is true, and no other dialog is.
C27_BackdropClick ==
  [][(op'[1] = "backdropClick" /\ dialogs # <<>>) =>
       /\ CountIn(trace', "onBackdropClick", dialogs[Len(dialogs)].id) = 1
       /\ CountKind(trace', "onBackdropClick") = 1
       /\ IF EffectiveCloseOnClickOutside = "true"
            THEN dialogs' = SubSeq(dialogs, 1, Len(dialogs) - 1)
            ELSE dialogs' = dialogs]_vars

\* Where the entry e is in the trace (0: nowhere), for an entry logged once.
EntryPos(tr, e) ==
  IF \E k \in 1..Len(tr) : tr[k] = e
    THEN CHOOSE k \in 1..Len(tr) : tr[k] = e
    ELSE 0

\* The stack without the record with the id.
StackWithout(id) ==
  LET Other(d) == d.id # id
  IN SelectSeq(dialogs, Other)

\* C28: one close(id) removes the record from the stack, then delivers the
\* removed event to every subscriber, who reads getDialogs() without the
\* record, then calls the record's onClose, and only then, the stack being
\* empty, schedules the focus restoration; the deferred restoration itself
\* calls no onClose.
C28_CloseOrder ==
  [][/\ (op'[1] = "close" /\ ret' # 0) =>
          LET id == ret'
              published == TracePos(trace', "close", id)
              first == EntryPos(trace', <<"notify", id, 1>>)
              last == EntryPos(trace', <<"notify", id, 3>>)
              called == TracePos(trace', "onClose", id)
              scheduled == TracePos(trace', "setTimeout", 0)
              record == dialogs[FindIndex(dialogs, id)]
          IN /\ dialogs' = StackWithout(id)
             /\ id \notin Ids(renderables')
             /\ 0 < published /\ published < first /\ first < last
             /\ CountIn(trace', "sees", id) = 2
             /\ \A k \in 1..Len(trace') :
                  trace'[k][1] = "sees" => trace'[k][3] = 0
             /\ (record.onClose.f # 0) = (called # 0)
             /\ called # 0 => last < called /\ CountIn(trace', "onClose", id) = 1
             /\ (scheduled # 0) = (dialogs' = <<>>)
             /\ scheduled # 0 => (called < scheduled /\ last < scheduled)
     /\ op'[1] = "tick" => CountKind(trace', "onClose") = 0]_vars

\* close of the last record, which has an onClose: event, callback, timer.
C28_Witness ==
  /\ op[1] = "close"
  /\ ret # 0
  /\ dialogs = <<>>
  /\ TracePos(trace, "sees", ret) # 0
  /\ TracePos(trace, "sees", ret) < TracePos(trace, "onClose", ret)
  /\ TracePos(trace, "onClose", ret) < TracePos(trace, "setTimeout", 0)
  /\ focusRestoreTimeout

\* C29: one show() of a new id captures and blurs the focus (only if the
\* stack was empty), pushes the record, delivers the added event to every
\* subscriber, who reads getDialogs() with the record, and then calls onOpen
\* before it returns; onOpen is called once for the record, and neither an
\* update-in-place nor any other call calls an onOpen.
C29_ShowOrder ==
  [][IF op'[1] = "show" /\ ret' # 0 /\ ret' \notin Ids(dialogs)
       THEN LET id == ret'
                blurred == TracePos(trace', "blur", currentFocused)
                published == TracePos(trace', "dialog", id)
                first == EntryPos(trace', <<"notify", id, 1>>)
                last == EntryPos(trace', <<"notify", id, 3>>)
                opened == TracePos(trace', "onOpen", id)
            IN /\ Len(dialogs') = Len(dialogs) + 1
               /\ SubSeq(dialogs', 1, Len(dialogs)) = dialogs
               /\ dialogs'[Len(dialogs')].id = id
               /\ id \in Ids(renderables')
               /\ (blurred # 0) = (dialogs = <<>>)
               /\ dialogs = <<>> => (savedFocus' = currentFocused /\ ~hasFocus')
               /\ dialogs # <<>> => (savedFocus' = savedFocus /\ hasFocus' = hasFocus)
               /\ blurred < published /\ published < first /\ first < last
               /\ CountIn(trace', "sees", id) = 2
               /\ \A k \in 1..Len(trace') :
                    trace'[k][1] = "sees" => trace'[k][3] = 1
               /\ last < opened
               /\ CountKind(trace', "onOpen") = 1
       ELSE CountKind(trace', "onOpen") = 0]_vars

\* show of a first record: blur, added event, readers, onOpen.
C29_Witness ==
  /\ op[1] = "show"
  /\ Len(dialogs) = 1
  /\ dialogs[1].id = ret
  /\ TracePos(trace, "blur", ElX) = 1
  /\ TracePos(trace, "sees", ret) # 0
  /\ TracePos(trace, "onOpen", ret) = Len(trace)
  /\ idCounter > 2

\* C30: a show() that opens a dialog after the last one closed and before
\* the deferred restoration fired cancels it: no timer is pending and no
\* focus() is called while a dialog is open, and at most one restoration
\* timer is pending at any time.
C30_ShowCancelsRestore ==
  [][/\ liveTimers' <= 1
     /\ focusRestoreTimeout' = (liveTimers' = 1)
     /\ dialogs' # <<>> =>
          /\ liveTimers' = 0
          /\ CountKind(trace', "focus") = 0
     /\ (op'[1] = "show" /\ dialogs = <<>> /\ liveTimers = 1) =>
          /\ CountKind(trace', "clearTimeout") = 1
          /\ savedFocus' = currentFocused]_vars

\* show while the restoration was pending: the timer was cleared and the
\* element that was to get the focus back is saved again.
C30_Witness ==
  /\ op[1] = "show"
  /\ TracePos(trace, "clearTimeout", 0) = 1
  /\ Len(dialogs) = 1
  /\ savedFocus = ElX
  /\ ~hasFocus
  /\ liveTimers = 0

\* C31: the deferred focus restoration calls focus() on no element when, by
\* the time the timer fires, the manager or the saved element has been
\* destroyed, and it never focuses a destroyed element; once the manager is
\* destroyed no step calls focus().
C31_NoFocusAfterDestroy ==
  [][/\ (op'[1] = "tick" /\
          (destroyed \/ savedFocus = NoEl \/ IsDestroyed(St, savedFocus))) =>
          /\ CountKind(trace', "focus") = 0
          /\ currentFocused' = currentFocused
          /\ hasFocus' = hasFocus
     /\ \A k \in 1..Len(trace') :
          trace'[k][1] = "focus" => ~IsDestroyed(St, trace'[k][2])
     /\ destroyed' => CountKind(trace', "focus") = 0]_vars

\* The timer fired after the application destroyed the element that was to
\* get the focus back: nothing was focused.
C31_Witness ==
  /\ op[1] = "tick"
  /\ xDestroyed
  /\ currentFocused = ElX
  /\ ~hasFocus
  /\ trace = <<>>
  /\ savedFocus = NoEl
  /\ dialogs = <<>>

\* C32: the focus is captured and blurred only by the step that takes the
\* stack from 0 to 1 records and the restoration is scheduled only by the
\* step that takes it from 1 to 0: a show on a non-empty stack, an update in
\* place and a close that leaves records neither change the saved element
\* nor blur nor set or clear a timer.
C32_FocusOnlyAtEdges ==
  [][/\ CountKind(trace', "blur") > 0 => (dialogs = <<>> /\ Len(dialogs') = 1)
     /\ savedFocus' \notin {savedFocus, NoEl} =>
          (dialogs = <<>> /\ Len(dialogs') = 1)
     /\ CountKind(trace', "setTimeout") > 0 =>
          (Len(dialogs) = 1 /\ dialogs' = <<>>)
     /\ (dialogs # <<>> /\ dialogs' # <<>>) =>
          /\ savedFocus' = savedFocus
          /\ hasFocus' = hasFocus
          /\ currentFocused' = currentFocused
          /\ liveTimers' = liveTimers
          /\ focusRestoreTimeout' = focusRestoreTimeout
          /\ CountKind(trace', "blur") = 0
          /\ CountKind(trace', "setTimeout") = 0
          /\ CountKind(trace', "clearTimeout") = 0]_vars

\* An update in place of the lower of two records: the saved element is
\* still the one captured when the first dialog opened.
C32_Witness ==
  /\ op = <<"show", StrId>>
  /\ Len(dialogs) = 2
  /\ dialogs[1].id = StrId
  /\ CountKind(trace, "onOpen") = 0
  /\ CountKind(trace, "blur") = 0
  /\ savedFocus = ElX
  /\ ~hasFocus

\* C33: after every event of the manager that the Container handled, the
\* Container (with its backdrop) is visible if and only if the manager's
\* stack is non-empty.
C33_VisibleIffOpen ==
  ~destroyed => (visible = (dialogs # <<>>))

\* C34: after updateDialog(id, {onClose: f}) or show({id, onClose: f}) on
\* the id of a pending prompt the promise is still attached to the dialog:
\* the close that removes the prompt's record resolves the promise with its
\* fallback.
C34_UpdateKeepsPromise ==
  [][\A p \in Prompts :
       (op'[1] = "close" /\ ret' = p /\ ~promises[p].settled) =>
         /\ promises'[p].settled
         /\ promises'[p].value =
              Coalesce(promises[p].fallback,
                       DefaultDismissValue(promises[p].kind))]_vars

\* C35: when the promise of an async prompt whose caller gave an onClose
\* settles, on any completion path, the caller's onClose ran exactly once in
\* that step and before the executor's resolve was called.
C35_OnCloseBeforeResolve ==
  [][\A p \in Prompts :
       (/\ ~promises[p].settled
        /\ promises'[p].settled
        /\ \E i \in 1..Len(dialogs) :
              dialogs[i].id = p /\ dialogs[i].onClose.w = p /\ dialogs[i].onClose.f # 0) =>
         /\ CountIn(trace', "onClose", p) = 1
         /\ TracePos(trace', "onClose", p) < TracePos(trace', "resolve", p)]_vars

\* C36: dismiss() of the context of a pending prompt resolves its promise
\* with the fixed dismiss value of its kind (false for confirm, undefined for
\* prompt, choice and alert) whatever fallback the caller gave; resolve(v)
\* resolves it with v; both remove exactly the prompt's record from the stack.
C36_ContextResolves ==
  [][\A p \in Prompts :
       (~promises[p].settled /\ p \in Ids(dialogs)) =>
         /\ op' = <<"dismiss", p>> =>
              /\ promises'[p].settled
              /\ promises'[p].value =
                   (IF promises[p].kind = "confirm" THEN "false" ELSE Undef)
              /\ dialogs' = StackWithout(p)
         /\ \A v \in {"true", "false", "v", Undef} :
              op' = <<"resolve " \o v, p>> =>
                /\ promises'[p].settled
                /\ promises'[p].value = v
                /\ dialogs' = StackWithout(p)]_vars

\* A confirm with the fallback true was dismissed below another prompt: it
\* resolved false and only its record left the stack.
C36_Witness ==
  /\ op = <<"dismiss", 1>>
  /\ promises[1].kind = "confirm"
  /\ promises[1].fallback = "true"
  /\ promises[1].value = "false"
  /\ IdSeq(dialogs) = <<2>>

\* C37: no two entries among the shown toasts and the queue share an id:
\* create with the id of a toast that is shown or queued updates that toast
\* in place.
C37_NoDuplicateIds ==
  LET all == toasts \o queue
  IN \A i, j \in 1..Len(all) : all[i].id = all[j].id => i = j

\* C38: while toasts wait in the queue, a slot that a dismiss freed goes to
\* the oldest of them: the only toasts that join the shown ones are the first
\* entries of the queue, in their order, moved there by the processQueue timer
\* of a dismiss, and the active toasts stay within the limit.
C38_PromotesFifo ==
  [][(queue # <<>> /\ Len(toasts') > Len(toasts)) =>
       LET n == Len(toasts') - Len(toasts)
       IN /\ op'[1] = "toastTimer"
          /\ n <= Len(queue)
          /\ SubSeq(toasts', Len(toasts) + 1, Len(toasts')) = SubSeq(queue, 1, n)
          /\ queue' = SubSeq(queue, n + 1, Len(queue))
          /\ Len(ActiveOf(TSt)') <= limit]_vars

\* C39: a toast that was dismissed by id while it waited in the queue is not
\* published to the subscribers as a new toast by a later timer and is not
\* among the active toasts.
C39_DismissedStaysQueued ==
  [][\A i \in 1..Len(queue) :
       (queue[i].id \in dismissedToasts /\ op'[1] = "toastTimer") =>
         /\ CountIn(trace', "toast", queue[i].id) = 0
         /\ queue[i].id \notin Ids(activeToasts')]_vars

====
